---- MODULE Spec2Model ----
(***************************************************************************)
(* Graph construction of the NeZha model (textToy/ptm/nezha.py):           *)
(* NeZhaEmbedding, NeZhaEncoder and NeZhaModel.__init__, followed          *)
(* statement by statement.  A tensor is its shape together with the chain  *)
(* of computations that produced its elements; a call of one of the three  *)
(* entry points is one run of the state machine.                           *)
(***************************************************************************)
EXTENDS Integers, Sequences, FiniteSets, TLC

\* ---------------------------------------------------------------- bounds
MaxHidden == 4
MaxHeads == 3
MaxLayers == 3
MaxBatch == 2
MaxSeq == 2
MaxWidth == 4
MaxDistance == 3
MaxLen == 5

\* ---------------------------------------------------------------- tensors
\* One node of the graph: the operation and, for a transformer layer, the
\* index of the variable scope "layer_%d" it was built in (-1 otherwise).
Op(name, idx) == [op |-> name, idx |-> idx]

Tensor(val, shape) == [val |-> val, shape |-> shape]

NoTensor == Tensor(<<>>, <<>>)

\* Python's None for an optional argument, and a supplied value.
None == [is_none |-> TRUE, value |-> <<>>]

Some(v) == [is_none |-> FALSE, value |-> v]

\* A batch x seq_length integer matrix filled with one value (tf.ones,
\* tf.zeros with shape=[batch_size, seq_length]).
Fill(batch_size, seq_length, v) == [b \in 1..batch_size |-> [s \in 1..seq_length |-> v]]

\* Caller-supplied id matrices: the first n positions of every row hold
\* `a`, the remaining ones `b` (padding mask 1..1 0..0, segments 0..0 1..1).
Prefix(batch_size, seq_length, n, a, b) == [r \in 1..batch_size |-> [s \in 1..seq_length |-> IF s <= n THEN a ELSE b]]

get_shape_list(tensor) == tensor.shape

\* utils.reshape_to_matrix: rank >= 2 tensor to [-1, width]; the elements
\* are kept in order, only the shape changes.
reshape_to_matrix(t) ==
    IF Len(t.shape) = 2 THEN t
    ELSE Tensor(t.val, <<t.shape[1] * t.shape[2], t.shape[3]>>)

\* utils.reshape_from_matrix: back to the leading dimensions of the
\* original shape, with the width of the matrix itself.
reshape_from_matrix(t, orig_shape_list) ==
    IF Len(orig_shape_list) = 2 THEN t
    ELSE Tensor(t.val, <<orig_shape_list[1], orig_shape_list[2], t.shape[2]>>)

\* embedding.word_embeddings_layer: [batch, seq] ids to
\* [batch, seq, embedding_size].
word_embeddings_layer(ids_shape, embedding_size) ==
    Tensor(<<Op("word_embeddings_layer", -1)>>, <<ids_shape[1], ids_shape[2], embedding_size>>)

\* embedding.token_type_embedding_layer followed by the sum of line 57.
add_token_type_embeddings(t) ==
    Tensor(t.val \o <<Op("token_type_embedding_layer", -1), Op("add", -1)>>, t.shape)

layer_norm_and_dropout(t) == Tensor(Append(t.val, Op("layer_norm_and_dropout", -1)), t.shape)

\* utils.create_attention_mask_from_input_mask: [batch, from_seq, to_seq],
\* entry (b, i, j) is the validity of key position j of row b.
create_attention_mask_from_input_mask(ids_shape, to_mask) ==
    [b \in 1..ids_shape[1] |-> [i \in 1..ids_shape[2] |-> [j \in 1..ids_shape[2] |-> to_mask[b][j]]]]

\* transformer.dense_layer_2d with use_einsum: the last dimension becomes
\* output_size.
dense_layer_2d(t, output_size) ==
    Tensor(Append(t.val, Op("dense_layer_2d", -1)), <<t.shape[1], t.shape[2], output_size>>)

\* transformer.bert_transformer_layer under variable scope layer_<idx>:
\* a tuple, the layer output first and the attention probabilities
\* [batch, heads, seq, seq] second when asked for.
bert_transformer_layer(layer_input, batch_size, seq_length, num_attention_heads, do_return_attentions_probs, idx) ==
    LET out == Tensor(Append(layer_input.val, Op("bert_transformer_layer", idx)), layer_input.shape)
        probs == Tensor(Append(layer_input.val, Op("attention_probs", idx)), <<batch_size, num_attention_heads, seq_length, seq_length>>)
    IN IF do_return_attentions_probs THEN <<out, probs>> ELSE <<out>>

\* transformer.pooler_layer: first position of the sequence output, dense
\* projection and tanh: [batch, hidden_size].
pooler_layer(sequence_output, hidden_size) ==
    Tensor(Append(sequence_output.val, Op("pooler_layer", -1)), <<sequence_output.shape[1], hidden_size>>)

\* Elements of a Python tuple that mixes tensors and lists of tensors.
TensorItem(t) == [kind |-> "tensor", tensor |-> t, list |-> <<>>]

ListItem(l) == [kind |-> "list", tensor |-> NoTensor, list |-> l]

\* ---------------------------------------------------------------- state
VARIABLES
    config,              \* hidden_size, num_attention_heads, num_hidden_layers, output_* flags
    call_args,           \* input_mask and token_type_ids as the caller passed them
    mode,                \* entry point called: "model", "embedding" or "encoder"
    ids_shape,           \* get_shape_list(input_ids): <<batch_size, seq_length>>
    input_mask,          \* NeZhaModel.__init__ argument / local
    token_type_ids,      \* NeZhaModel.__init__ argument / local
    pc,                  \* position in the code
    error,               \* the ValueError raised, "none" if none
    ops,                 \* graph operations in the order they were built
    emb_token_type_ids,  \* token_type_ids as received by NeZhaEmbedding
    embedding_output,
    mask_arg,            \* input_mask as received by the attention-mask builder
    attention_mask,
    enc_arg,             \* input_tensor as received by NeZhaEncoder
    input_tensor,        \* NeZhaEncoder local (reassigned by the adapter)
    input_shape,
    prev_output,
    layer_idx,
    layer_calls,         \* per executed layer: idx, layer_input, layer_output[0]
    all_layer_outputs,
    all_layer_attention_probs,
    final_output,
    final_all_layer_outputs,
    outputs,             \* NeZhaEncoder local tuple
    encoder_outputs,
    pooled_output,
    self_outputs,        \* NeZhaModel.outputs
    rel                  \* relative-position kernel: length, max distance, matrix being built

vars == <<config, call_args, mode, ids_shape, input_mask, token_type_ids, pc, error, ops, emb_token_type_ids, embedding_output, mask_arg, attention_mask, enc_arg, input_tensor, input_shape, prev_output, layer_idx, layer_calls, all_layer_outputs, all_layer_attention_probs, final_output, final_all_layer_outputs, outputs, encoder_outputs, pooled_output, self_outputs, rel>>

Configs ==
    [hidden_size : 1..MaxHidden, num_attention_heads : 1..MaxHeads, num_hidden_layers : 0..MaxLayers, output_hidden_states : BOOLEAN, output_attentions : BOOLEAN]

\* Optional [batch, seq] matrices a caller may pass.
MaskArgs(shape) == {None} \cup {Some(Prefix(shape[1], shape[2], n, 1, 0)) : n \in 0..shape[2]}

TypeArgs(shape) == {None} \cup {Some(Prefix(shape[1], shape[2], n, 0, 1)) : n \in 0..shape[2]}

\* Rank-3 tensors a caller may pass to NeZhaEncoder directly.
EncoderInputs(shape) == {Tensor(<<Op("input", -1)>>, <<shape[1], shape[2], w>>) : w \in 1..MaxWidth}

Modes == {"model", "embedding", "encoder"}

Shapes == {<<b, s>> : b \in 1..MaxBatch, s \in 1..MaxSeq}

Entry(m) == IF m = "model" THEN "model_start" ELSE IF m = "embedding" THEN "emb_word" ELSE "enc_check"

RelIdle == [L |-> 0, D |-> 0, step |-> "idle", range_vec |-> <<>>, mat |-> <<>>]

\* The locals of the three functions before any of them has run.
Locals ==
    /\ error = "none"
    /\ ops = <<>>
    /\ embedding_output = NoTensor
    /\ mask_arg = None
    /\ input_tensor = NoTensor
    /\ input_shape = <<>>
    /\ prev_output = NoTensor
    /\ layer_idx = 0
    /\ layer_calls = <<>>
    /\ all_layer_outputs = <<>>
    /\ all_layer_attention_probs = <<>>
    /\ final_output = NoTensor
    /\ final_all_layer_outputs = <<>>
    /\ outputs = <<>>
    /\ encoder_outputs = <<>>
    /\ pooled_output = NoTensor
    /\ self_outputs = <<>>

\* A call of NeZhaModel(config, input_ids, input_mask, token_type_ids), of
\* NeZhaEmbedding(config, input_ids, token_type_ids) or of
\* NeZhaEncoder(config, input_tensor, attention_mask), about to start.
Init ==
    /\ config \in Configs
    /\ mode \in Modes
    /\ ids_shape \in Shapes
    /\ input_mask \in (IF mode = "model" THEN MaskArgs(ids_shape) ELSE {None})
    /\ token_type_ids \in (IF mode = "encoder" THEN {None} ELSE TypeArgs(ids_shape))
    /\ call_args = [input_mask |-> input_mask, token_type_ids |-> token_type_ids]
    /\ emb_token_type_ids = (IF mode = "embedding" THEN token_type_ids ELSE None)
    /\ enc_arg \in (IF mode = "encoder" THEN EncoderInputs(ids_shape) ELSE {NoTensor})
    /\ attention_mask \in (IF mode = "encoder" THEN {None, Some(create_attention_mask_from_input_mask(ids_shape, Fill(ids_shape[1], ids_shape[2], 1)))} ELSE {None})
    /\ pc = Entry(mode)
    /\ Locals
    /\ rel = RelIdle

\* Variant: the default mask is built with tf.zeros instead of tf.ones.
DefaultInputMask_zeros(m, batch_size, seq_length) ==
    IF m.is_none THEN Some(Fill(batch_size, seq_length, 0)) ELSE m

\* Lines 165-166: input_mask defaults to tf.ones([batch_size, seq_length]).
DefaultInputMask(m, batch_size, seq_length) ==
    IF m.is_none THEN Some(Fill(batch_size, seq_length, 1)) ELSE m

\* Variant: no default, token_type_ids is handed on as received.
DefaultTokenTypeIds_absent(t, batch_size, seq_length) == t

\* Lines 168-169: token_type_ids defaults to tf.zeros([batch_size, seq_length]).
DefaultTokenTypeIds(t, batch_size, seq_length) ==
    IF t.is_none THEN Some(Fill(batch_size, seq_length, 0)) ELSE t

\* ------------------------------------------------ NeZhaModel.__init__ (1)
\* Lines 159-178: shape of input_ids, the two defaults, and the call of
\* NeZhaEmbedding with the (possibly defaulted) token_type_ids.
ModelDefaults ==
    /\ pc = "model_start"
    /\ input_mask' = DefaultInputMask(input_mask, ids_shape[1], ids_shape[2])
    /\ token_type_ids' = DefaultTokenTypeIds(token_type_ids, ids_shape[1], ids_shape[2])
    /\ emb_token_type_ids' = token_type_ids'
    /\ pc' = "emb_word"
    /\ UNCHANGED <<config, call_args, mode, ids_shape, error, ops, embedding_output, mask_arg, attention_mask, enc_arg, input_tensor, input_shape, prev_output, layer_idx, layer_calls, all_layer_outputs, all_layer_attention_probs, final_output, final_all_layer_outputs, outputs, encoder_outputs, pooled_output, self_outputs, rel>>

\* ------------------------------------------------------- NeZhaEmbedding
\* Lines 33-42: word embedding lookup.
EmbWord ==
    /\ pc = "emb_word"
    /\ embedding_output' = word_embeddings_layer(ids_shape, config.hidden_size)
    /\ ops' = Append(ops, Op("word_embeddings_layer", -1))
    /\ pc' = "emb_check"
    /\ UNCHANGED <<config, call_args, mode, ids_shape, input_mask, token_type_ids, error, emb_token_type_ids, mask_arg, attention_mask, enc_arg, input_tensor, input_shape, prev_output, layer_idx, layer_calls, all_layer_outputs, all_layer_attention_probs, final_output, final_all_layer_outputs, outputs, encoder_outputs, pooled_output, self_outputs, rel>>

\* Lines 47-49: token_type_ids is None raises ValueError.
EmbCheck ==
    /\ pc = "emb_check"
    /\ IF emb_token_type_ids.is_none
       THEN error' = "token_type_ids_missing" /\ pc' = "raised"
       ELSE error' = error /\ pc' = "emb_token_type"
    /\ UNCHANGED <<config, call_args, mode, ids_shape, input_mask, token_type_ids, ops, emb_token_type_ids, embedding_output, mask_arg, attention_mask, enc_arg, input_tensor, input_shape, prev_output, layer_idx, layer_calls, all_layer_outputs, all_layer_attention_probs, final_output, final_all_layer_outputs, outputs, encoder_outputs, pooled_output, self_outputs, rel>>

\* Lines 50-57: token type lookup, added to the word embeddings.
EmbTokenType ==
    /\ pc = "emb_token_type"
    /\ embedding_output' = add_token_type_embeddings(embedding_output)
    /\ ops' = ops \o <<Op("token_type_embedding_layer", -1), Op("add", -1)>>
    /\ pc' = "emb_norm"
    /\ UNCHANGED <<config, call_args, mode, ids_shape, input_mask, token_type_ids, error, emb_token_type_ids, mask_arg, attention_mask, enc_arg, input_tensor, input_shape, prev_output, layer_idx, layer_calls, all_layer_outputs, all_layer_attention_probs, final_output, final_all_layer_outputs, outputs, encoder_outputs, pooled_output, self_outputs, rel>>

\* Lines 59-63: layer norm and dropout, return to the caller.
EmbNorm ==
    /\ pc = "emb_norm"
    /\ embedding_output' = layer_norm_and_dropout(embedding_output)
    /\ ops' = Append(ops, Op("layer_norm_and_dropout", -1))
    /\ pc' = (IF mode = "model" THEN "mask_builder" ELSE "returned")
    /\ UNCHANGED <<config, call_args, mode, ids_shape, input_mask, token_type_ids, error, emb_token_type_ids, mask_arg, attention_mask, enc_arg, input_tensor, input_shape, prev_output, layer_idx, layer_calls, all_layer_outputs, all_layer_attention_probs, final_output, final_all_layer_outputs, outputs, encoder_outputs, pooled_output, self_outputs, rel>>

\* ------------------------------------------------ NeZhaModel.__init__ (2)
\* Lines 180-187: attention mask from input_mask, then the call of
\* NeZhaEncoder on the embedding output.
MaskBuilder ==
    /\ pc = "mask_builder"
    /\ mask_arg' = input_mask
    /\ attention_mask' = Some(create_attention_mask_from_input_mask(ids_shape, input_mask.value))
    /\ ops' = Append(ops, Op("create_attention_mask_from_input_mask", -1))
    /\ enc_arg' = embedding_output
    /\ pc' = "enc_check"
    /\ UNCHANGED <<config, call_args, mode, ids_shape, input_mask, token_type_ids, error, emb_token_type_ids, embedding_output, input_tensor, input_shape, prev_output, layer_idx, layer_calls, all_layer_outputs, all_layer_attention_probs, final_output, final_all_layer_outputs, outputs, encoder_outputs, pooled_output, self_outputs, rel>>

\* Variant: the divisibility check is left out.
HeadsDivideHidden_unchecked(c) == TRUE

\* --------------------------------------------------------- NeZhaEncoder
\* Line 80: the hidden size is a multiple of the number of heads.
HeadsDivideHidden(c) == c.hidden_size % c.num_attention_heads = 0

\* Variant: the projection is applied whatever the width.
AdapterNeeded_always(input_width, c) == TRUE

\* Line 94: the adapter is needed when the input width is not hidden_size.
AdapterNeeded(input_width, c) == input_width # c.hidden_size

\* Variant: the width is compared with the number of heads.
Adapted_heads(t, c) ==
    IF get_shape_list(t)[3] # c.num_attention_heads THEN dense_layer_2d(t, c.hidden_size) ELSE t

\* Lines 94-98: input_tensor after the embedding_hidden_mapping_in step.
Adapted(t, c) ==
    IF AdapterNeeded(get_shape_list(t)[3], c) THEN dense_layer_2d(t, c.hidden_size) ELSE t

\* Variant: prev_output is not advanced.
NextPrevOutput_stale(prev, layer_output) == prev

\* Line 126: the output of this layer is the input of the next.
NextPrevOutput(prev, layer_output) == layer_output[1]

\* Variant: the layer output is inserted at the front of the list.
CollectLayerOutput_front(acc, layer_output, c) ==
    IF c.output_hidden_states THEN <<layer_output[1]>> \o acc ELSE acc

\* Lines 127-128.
CollectLayerOutput(acc, layer_output, c) ==
    IF c.output_hidden_states THEN Append(acc, layer_output[1]) ELSE acc

\* Lines 129-130.
CollectAttentionProbs(acc, layer_output, c) ==
    IF c.output_attentions THEN Append(acc, layer_output[2]) ELSE acc

\* Variant: the list keeps the matrices, the reshaped value is dropped.
ReshapeAll_matrix(layer_outputs, shape) == layer_outputs

\* Lines 138-140: every collected layer output reshaped to the input shape.
ReshapeAll(layer_outputs, shape) ==
    [k \in 1..Len(layer_outputs) |-> reshape_from_matrix(layer_outputs[k], shape)]

\* Lines 138-139: the local final_output after the loop over the list.
FinalOutputAfterLoop(final, reshaped) ==
    IF Len(reshaped) = 0 THEN final ELSE reshaped[Len(reshaped)]

\* Lines 136-141: the tuple with the hidden-states list, when asked for.
WithHiddenStates(outs, reshaped, c) ==
    IF c.output_hidden_states THEN Append(outs, ListItem(reshaped)) ELSE outs

\* Lines 143-144: the tuple with the attention list, when asked for.
WithAttentions(outs, probs, c) ==
    IF c.output_attentions THEN Append(outs, ListItem(probs)) ELSE outs

\* Lines 80-83: ValueError unless hidden_size % num_attention_heads = 0.
EncCheck ==
    /\ pc = "enc_check"
    /\ IF HeadsDivideHidden(config)
       THEN error' = error /\ pc' = "enc_adapter"
       ELSE error' = "hidden_size_not_multiple_of_heads" /\ pc' = "raised"
    /\ UNCHANGED <<config, call_args, mode, ids_shape, input_mask, token_type_ids, ops, emb_token_type_ids, embedding_output, mask_arg, attention_mask, enc_arg, input_tensor, input_shape, prev_output, layer_idx, layer_calls, all_layer_outputs, all_layer_attention_probs, final_output, final_all_layer_outputs, outputs, encoder_outputs, pooled_output, self_outputs, rel>>

\* Lines 87-107: input shape, the adapter when the width differs, the
\* reshape to a matrix and the two empty lists.
EncAdapter ==
    /\ pc = "enc_adapter"
    /\ input_shape' = get_shape_list(enc_arg)
    /\ input_tensor' = Adapted(enc_arg, config)
    /\ prev_output' = reshape_to_matrix(input_tensor')
    /\ ops' = (IF AdapterNeeded(input_shape'[3], config) THEN Append(ops, Op("dense_layer_2d", -1)) ELSE ops) \o <<Op("reshape_to_matrix", -1)>>
    /\ all_layer_outputs' = <<>>
    /\ all_layer_attention_probs' = <<>>
    /\ layer_idx' = 0
    /\ pc' = "enc_loop"
    /\ UNCHANGED <<config, call_args, mode, ids_shape, input_mask, token_type_ids, error, emb_token_type_ids, embedding_output, mask_arg, attention_mask, enc_arg, layer_calls, final_output, final_all_layer_outputs, outputs, encoder_outputs, pooled_output, self_outputs, rel>>

\* Lines 108-130: one iteration of the loop over range(num_hidden_layers).
EncLayer ==
    /\ pc = "enc_loop"
    /\ layer_idx < config.num_hidden_layers
    /\ LET layer_input == prev_output
           layer_output == bert_transformer_layer(layer_input, input_shape[1], input_shape[2], config.num_attention_heads, config.output_attentions, layer_idx)
       IN /\ prev_output' = NextPrevOutput(prev_output, layer_output)
          /\ all_layer_outputs' = CollectLayerOutput(all_layer_outputs, layer_output, config)
          /\ all_layer_attention_probs' = CollectAttentionProbs(all_layer_attention_probs, layer_output, config)
          /\ layer_calls' = Append(layer_calls, [idx |-> layer_idx, layer_input |-> layer_input, layer_output |-> layer_output[1], probs |-> IF Len(layer_output) > 1 THEN layer_output[2] ELSE NoTensor])
    /\ ops' = Append(ops, Op("bert_transformer_layer", layer_idx))
    /\ layer_idx' = layer_idx + 1
    /\ UNCHANGED <<config, call_args, mode, ids_shape, input_mask, token_type_ids, pc, error, emb_token_type_ids, embedding_output, mask_arg, attention_mask, enc_arg, input_tensor, input_shape, final_output, final_all_layer_outputs, outputs, encoder_outputs, pooled_output, self_outputs, rel>>

\* Lines 132-134: the loop is over; final_output and the one-element tuple.
EncFinal ==
    /\ pc = "enc_loop"
    /\ layer_idx >= config.num_hidden_layers
    /\ final_output' = reshape_from_matrix(prev_output, input_shape)
    /\ outputs' = <<TensorItem(final_output')>>
    /\ ops' = Append(ops, Op("reshape_from_matrix", -1))
    /\ pc' = "enc_hidden"
    /\ UNCHANGED <<config, call_args, mode, ids_shape, input_mask, token_type_ids, error, emb_token_type_ids, embedding_output, mask_arg, attention_mask, enc_arg, input_tensor, input_shape, prev_output, layer_idx, layer_calls, all_layer_outputs, all_layer_attention_probs, final_all_layer_outputs, encoder_outputs, pooled_output, self_outputs, rel>>

\* Lines 136-141: with output_hidden_states, the reshaped list is built
\* (reassigning final_output per entry) and appended to the tuple.
EncHidden ==
    /\ pc = "enc_hidden"
    /\ IF config.output_hidden_states
       THEN /\ final_all_layer_outputs' = ReshapeAll(all_layer_outputs, input_shape)
            /\ final_output' = FinalOutputAfterLoop(final_output, final_all_layer_outputs')
            /\ ops' = ops \o [k \in 1..Len(all_layer_outputs) |-> Op("reshape_from_matrix", -1)]
       ELSE UNCHANGED <<final_all_layer_outputs, final_output, ops>>
    /\ outputs' = WithHiddenStates(outputs, final_all_layer_outputs', config)
    /\ pc' = "enc_attn"
    /\ UNCHANGED <<config, call_args, mode, ids_shape, input_mask, token_type_ids, error, emb_token_type_ids, embedding_output, mask_arg, attention_mask, enc_arg, input_tensor, input_shape, prev_output, layer_idx, layer_calls, all_layer_outputs, all_layer_attention_probs, encoder_outputs, pooled_output, self_outputs, rel>>

\* Lines 143-145: with output_attentions the attention list is appended;
\* the tuple is returned to the caller.
EncReturn ==
    /\ pc = "enc_attn"
    /\ outputs' = WithAttentions(outputs, all_layer_attention_probs, config)
    /\ encoder_outputs' = outputs'
    /\ pc' = (IF mode = "model" THEN "pooler" ELSE "returned")
    /\ UNCHANGED <<config, call_args, mode, ids_shape, input_mask, token_type_ids, error, ops, emb_token_type_ids, embedding_output, mask_arg, attention_mask, enc_arg, input_tensor, input_shape, prev_output, layer_idx, layer_calls, all_layer_outputs, all_layer_attention_probs, final_output, final_all_layer_outputs, pooled_output, self_outputs, rel>>

\* Variant: the pooled output is put last.
ModelOutputs_last(pooled, enc_outs) == enc_outs \o <<TensorItem(pooled)>>

\* ------------------------------------------------ NeZhaModel.__init__ (3)
\* Line 196: (pooled_output,) + encoder_outputs.
ModelOutputs(pooled, enc_outs) == <<TensorItem(pooled)>> \o enc_outs

\* Lines 189-196: the pooler on encoder_outputs[0], then self.outputs.
Pooler ==
    /\ pc = "pooler"
    /\ pooled_output' = pooler_layer(encoder_outputs[1].tensor, config.hidden_size)
    /\ ops' = Append(ops, Op("pooler_layer", -1))
    /\ self_outputs' = ModelOutputs(pooled_output', encoder_outputs)
    /\ pc' = "returned"
    /\ UNCHANGED <<config, call_args, mode, ids_shape, input_mask, token_type_ids, error, emb_token_type_ids, embedding_output, mask_arg, attention_mask, enc_arg, input_tensor, input_shape, prev_output, layer_idx, layer_calls, all_layer_outputs, all_layer_attention_probs, final_output, final_all_layer_outputs, outputs, encoder_outputs, rel>>

Next ==
    \/ ModelDefaults
    \/ EmbWord
    \/ EmbCheck
    \/ EmbTokenType
    \/ EmbNorm
    \/ MaskBuilder
    \/ EncCheck
    \/ EncAdapter
    \/ EncLayer
    \/ EncFinal
    \/ EncHidden
    \/ EncReturn
    \/ Pooler

Spec == Init /\ [][Next]_vars

\* ------------------------------------- relative-position bucket matrix
\* Built inside every layer run with use_relative_position=True (line 123)
\* for the sequence length L and the maximum relative distance D.
mainVars == <<config, call_args, mode, ids_shape, input_mask, token_type_ids, pc, error, ops, emb_token_type_ids, embedding_output, mask_arg, attention_mask, enc_arg, input_tensor, input_shape, prev_output, layer_idx, layer_calls, all_layer_outputs, all_layer_attention_probs, final_output, final_all_layer_outputs, outputs, encoder_outputs, pooled_output, self_outputs>>

\* Variant: only the upper bound is enforced.
clip_by_value_upper(x, lo, hi) == IF x > hi THEN hi ELSE x


clip_by_value(x, lo, hi) == IF x < lo THEN lo ELSE IF x > hi THEN hi ELSE x

\* Signed distance of key position j from query position i.
distance(range_mat, i, j) == range_mat[i][j] - range_mat[j][i]

\* The bucket of one clipped distance.
shift(d, D) == d + D

RelInit ==
    /\ config = [hidden_size |-> 1, num_attention_heads |-> 1, num_hidden_layers |-> 0, output_hidden_states |-> FALSE, output_attentions |-> FALSE]
    /\ mode = "kernel"
    /\ ids_shape = <<1, 1>>
    /\ input_mask = None
    /\ token_type_ids = None
    /\ call_args = [input_mask |-> None, token_type_ids |-> None]
    /\ emb_token_type_ids = None
    /\ enc_arg = NoTensor
    /\ attention_mask = None
    /\ pc = "kernel"
    /\ Locals
    /\ \E L \in 1..MaxLen, D \in 0..MaxDistance : rel = [L |-> L, D |-> D, step |-> "start", range_vec |-> <<>>, mat |-> <<>>]

\* range_vec = 0 .. L-1.
RelRange ==
    /\ rel.step = "start"
    /\ rel' = [rel EXCEPT !.step = "range_vec", !.range_vec = [k \in 1..rel.L |-> k - 1]]
    /\ UNCHANGED mainVars

\* range_mat: range_vec tiled L times, entry (i, j) is j.
RelTile ==
    /\ rel.step = "range_vec"
    /\ rel' = [rel EXCEPT !.step = "range_mat", !.mat = [i \in 1..rel.L |-> rel.range_vec]]
    /\ UNCHANGED mainVars

\* distance_mat = range_mat - transpose(range_mat).
RelDistance ==
    /\ rel.step = "range_mat"
    /\ rel' = [rel EXCEPT !.step = "distance_mat", !.mat = [i \in 1..rel.L |-> [j \in 1..rel.L |-> distance(rel.mat, i, j)]]]
    /\ UNCHANGED mainVars

\* Clipped to [-D, D].
RelClip ==
    /\ rel.step = "distance_mat"
    /\ rel' = [rel EXCEPT !.step = "clipped", !.mat = [i \in 1..rel.L |-> [j \in 1..rel.L |-> clip_by_value(rel.mat[i][j], -rel.D, rel.D)]]]
    /\ UNCHANGED mainVars

\* Shifted by D into [0, 2 D].
RelShift ==
    /\ rel.step = "clipped"
    /\ rel' = [rel EXCEPT !.step = "final", !.mat = [i \in 1..rel.L |-> [j \in 1..rel.L |-> shift(rel.mat[i][j], rel.D)]]]
    /\ UNCHANGED mainVars

RelNext ==
    \/ RelRange
    \/ RelTile
    \/ RelDistance
    \/ RelClip
    \/ RelShift

RelSpec == RelInit /\ [][RelNext]_vars

\* ================================================================ claims
Divisible == config.hidden_size % config.num_attention_heads = 0

N == config.num_hidden_layers

Terminal == pc \in {"returned", "raised"}

\* NeZhaEncoder has returned its tuple.
EncoderReturned == mode \in {"model", "encoder"} /\ pc \in {"pooler", "returned"}

\* NeZhaEncoder is past the adapter step.
PastAdapter == mode \in {"model", "encoder"} /\ pc \in {"enc_loop", "enc_hidden", "enc_attn", "pooler", "returned"}

Positions(name) == {k \in 1..Len(ops) : ops[k].op = name}

Ran(name) == Positions(name) # {}

Flags == (IF config.output_hidden_states THEN 1 ELSE 0) + (IF config.output_attentions THEN 1 ELSE 0)

\* A batch x seq_length matrix whose every entry is v.
AllEqual(m, v) ==
    /\ DOMAIN m = 1..ids_shape[1]
    /\ \A b \in 1..ids_shape[1] : DOMAIN m[b] = 1..ids_shape[2] /\ \A p \in 1..ids_shape[2] : m[b][p] = v

C2_LayerThreading ==
    PastAdapter =>
        /\ Len(layer_calls) <= N
        /\ \A k \in 1..Len(layer_calls) :
            /\ layer_calls[k].idx = k - 1
            /\ layer_calls[k].layer_input = (IF k = 1 THEN reshape_to_matrix(input_tensor) ELSE layer_calls[k - 1].layer_output)
            /\ layer_calls[k].layer_output = bert_transformer_layer(layer_calls[k].layer_input, input_shape[1], input_shape[2], config.num_attention_heads, FALSE, k - 1)[1]
            /\ \A m \in k..Len(layer_calls) : layer_calls[k].layer_input # layer_calls[m].layer_output
        /\ Positions("bert_transformer_layer") # {} => \A k \in 1..Len(layer_calls) : ops[CHOOSE q \in Positions("bert_transformer_layer") : Cardinality({r \in Positions("bert_transformer_layer") : r < q}) = k - 1].idx = k - 1
        /\ (EncoderReturned /\ N >= 1) =>
            /\ Len(layer_calls) = N
            /\ encoder_outputs[1].tensor = reshape_from_matrix(layer_calls[N].layer_output, input_shape)

C2_Witness == mode = "encoder" /\ pc = "returned" /\ N >= 3 /\ Len(layer_calls) = N

\* C3: NeZhaEncoder returns the list of per-layer hidden states iff
\* output_hidden_states is set and the list of per-layer attention
\* probabilities iff output_attentions is set; each list has N entries,
\* entry k being the output (the attention probabilities) of layer k.
C3_CollectedLists ==
    EncoderReturned =>
        /\ Len(encoder_outputs) = 1 + Flags
        /\ encoder_outputs[1].kind = "tensor"
        /\ \A q \in 2..Len(encoder_outputs) : encoder_outputs[q].kind = "list" /\ Len(encoder_outputs[q].list) = N
        /\ config.output_hidden_states =>
            \A k \in 1..N : encoder_outputs[2].list[k] = reshape_from_matrix(layer_calls[k].layer_output, input_shape)
        /\ config.output_attentions =>
            \A k \in 1..N :
                /\ encoder_outputs[1 + Flags].list[k] = layer_calls[k].probs
                /\ layer_calls[k].probs = bert_transformer_layer(layer_calls[k].layer_input, input_shape[1], input_shape[2], config.num_attention_heads, TRUE, k - 1)[2]
                /\ layer_calls[k].probs.shape = <<input_shape[1], config.num_attention_heads, input_shape[2], input_shape[2]>>

C3_Witness == EncoderReturned /\ N >= 2 /\ config.output_hidden_states /\ config.output_attentions /\ Len(encoder_outputs) = 3

\* C4: NeZhaModel.outputs is (pooled output, final hidden state,
\* hidden-states list if asked for, attention list if asked for): 2 plus
\* the number of flags entries, the pooled output first and computed from
\* the encoder's final hidden state, the final hidden state second, the
\* hidden-states list before the attention list.
C4_OutputBundle ==
    (mode = "model" /\ pc = "returned") =>
        /\ Len(self_outputs) = 2 + Flags
        /\ self_outputs[1].kind = "tensor" /\ self_outputs[2].kind = "tensor"
        /\ self_outputs[2].tensor = reshape_from_matrix(prev_output, input_shape)
        /\ self_outputs[2].tensor.shape = <<ids_shape[1], ids_shape[2], config.hidden_size>>
        /\ self_outputs[1].tensor = pooler_layer(self_outputs[2].tensor, config.hidden_size)
        /\ self_outputs[1].tensor.shape = <<ids_shape[1], config.hidden_size>>
        /\ \A q \in 3..Len(self_outputs) : self_outputs[q].kind = "list" /\ Len(self_outputs[q].list) = N
        /\ config.output_hidden_states =>
            \A k \in 1..N : self_outputs[3].list[k] = reshape_from_matrix(layer_calls[k].layer_output, input_shape)
        /\ config.output_attentions =>
            \A k \in 1..N : self_outputs[2 + Flags].list[k] = layer_calls[k].probs

C4_Witness == mode = "model" /\ pc = "returned" /\ N >= 1 /\ config.output_hidden_states /\ config.output_attentions /\ Len(self_outputs) = 4

\* C5: with num_hidden_layers = 0 NeZhaEncoder runs no transformer layer
\* and returns the post-adapter embedding unchanged: the input tensor when
\* its width is hidden_size, its projection by the adapter otherwise; any
\* requested per-layer list is empty.
C5_NoLayers ==
    (EncoderReturned /\ N = 0) =>
        /\ layer_calls = <<>>
        /\ ~Ran("bert_transformer_layer")
        /\ encoder_outputs[1].tensor = (IF enc_arg.shape[3] = config.hidden_size THEN enc_arg ELSE dense_layer_2d(enc_arg, config.hidden_size))
        /\ \A q \in 2..Len(encoder_outputs) : encoder_outputs[q].list = <<>>

C5_Witness == mode = "encoder" /\ pc = "returned" /\ N = 0 /\ enc_arg.shape[3] # config.hidden_size /\ config.output_hidden_states /\ Divisible

\* C6: in a NeZhaModel construction an absent input_mask reaches the
\* attention-mask builder as all ones [batch, seq_length], an absent
\* token_type_ids reaches the embedding stage as all zeros
\* [batch, seq_length]; a supplied one is passed through unchanged.
C6_Defaults ==
    mode = "model" =>
        /\ Ran("create_attention_mask_from_input_mask") =>
            /\ ~mask_arg.is_none
            /\ call_args.input_mask.is_none => AllEqual(mask_arg.value, 1)
            /\ ~call_args.input_mask.is_none => mask_arg = call_args.input_mask
        /\ Ran("word_embeddings_layer") =>
            /\ ~emb_token_type_ids.is_none
            /\ call_args.token_type_ids.is_none => AllEqual(emb_token_type_ids.value, 0)
            /\ ~call_args.token_type_ids.is_none => emb_token_type_ids = call_args.token_type_ids

C6_Witness == mode = "model" /\ call_args.input_mask.is_none /\ call_args.token_type_ids.is_none /\ Ran("create_attention_mask_from_input_mask") /\ ids_shape = <<2, 2>>

\* C7: the missing-token_type_ids error is unreachable from NeZhaModel,
\* which always enters NeZhaEmbedding with token_type_ids present; it is
\* raised only by a direct call of NeZhaEmbedding without token_type_ids,
\* and then no token-type lookup, sum or normalization is performed.
C7_MissingTypeIds ==
    /\ mode = "model" =>
        /\ error # "token_type_ids_missing"
        /\ pc # "model_start" => ~emb_token_type_ids.is_none
    /\ error = "token_type_ids_missing" =>
        /\ mode = "embedding" /\ call_args.token_type_ids.is_none /\ pc = "raised"
        /\ ~Ran("token_type_embedding_layer") /\ ~Ran("add") /\ ~Ran("layer_norm_and_dropout")
    /\ (mode = "embedding" /\ call_args.token_type_ids.is_none) => pc \in {"emb_word", "emb_check", "raised"}

C7_Witness == mode = "model" /\ call_args.token_type_ids.is_none /\ pc = "returned" /\ Ran("token_type_embedding_layer")

\* C8: the embedding-to-hidden projection of NeZhaEncoder is applied iff
\* the input width differs from hidden_size, at most once per call, before
\* layer 0 and never inside the layer loop; with equal widths the input
\* reaches layer 0 without projection.
C8_AdapterOnce ==
    /\ Cardinality(Positions("dense_layer_2d")) <= 1
    /\ \A a \in Positions("dense_layer_2d"), l \in Positions("bert_transformer_layer") : a < l
    /\ PastAdapter =>
        /\ Ran("dense_layer_2d") <=> enc_arg.shape[3] # config.hidden_size
        /\ enc_arg.shape[3] = config.hidden_size => input_tensor = enc_arg
        /\ enc_arg.shape[3] # config.hidden_size => input_tensor = dense_layer_2d(enc_arg, config.hidden_size)
        /\ (Len(layer_calls) >= 1 /\ enc_arg.shape[3] = config.hidden_size) => layer_calls[1].layer_input = reshape_to_matrix(enc_arg)

C8_Witness == mode = "encoder" /\ pc = "returned" /\ N >= 2 /\ enc_arg.shape[3] # config.hidden_size /\ Cardinality(Positions("dense_layer_2d")) = 1

\* C10: with output_hidden_states and N >= 1, the final hidden state at
\* index 0 of NeZhaEncoder's result equals the last entry of the
\* hidden-states list; building the list (reassigning final_output) leaves
\* it the output of layer N-1, not of an earlier layer.
C10_FinalIsLastEntry ==
    (mode \in {"model", "encoder"} /\ pc \in {"enc_attn", "pooler", "returned"} /\ config.output_hidden_states /\ N >= 1) =>
        /\ outputs[1].tensor = outputs[2].list[N]
        /\ outputs[1].tensor = reshape_from_matrix(layer_calls[N].layer_output, input_shape)
        /\ \A k \in 1..(N - 1) : outputs[1].tensor # reshape_from_matrix(layer_calls[k].layer_output, input_shape)
        /\ pc # "enc_attn" => encoder_outputs[1] = outputs[1] /\ encoder_outputs[2] = outputs[2]

C10_Witness == mode = "encoder" /\ pc = "returned" /\ config.output_hidden_states /\ N >= 2 /\ final_output = final_all_layer_outputs[N]

\* C9: for every length L >= 1, maximum distance D >= 0 and positions i, j,
\* the bucket clip(j - i, -D, D) + D lies in [0, 2 D],
\* bucket(i, j) + bucket(j, i) = 2 D and bucket(i, i) = D.
C9_Buckets ==
    rel.step = "final" =>
        \A i \in 1..rel.L, j \in 1..rel.L :
            /\ rel.mat[i][j] = (IF j - i < -rel.D THEN 0 ELSE IF j - i > rel.D THEN 2 * rel.D ELSE j - i + rel.D)
            /\ rel.mat[i][j] \in 0..(2 * rel.D)
            /\ rel.mat[i][j] + rel.mat[j][i] = 2 * rel.D
            /\ rel.mat[i][i] = rel.D

C9_Witness == rel.step = "final" /\ rel.L >= 4 /\ rel.D = 2 /\ rel.mat[1][4] = 4 /\ rel.mat[4][1] = 0

====
